---- MODULE Spec2Model ----
(***************************************************************************)
(* Model of pym/portage/env/loaders.py: the RecursiveFileLoader generator, *)
(* the DataLoader family (EnvLoader, TestTextLoader, FileLoader) and the   *)
(* three line parsers (ItemFileLoader, KeyListFileLoader,                  *)
(* KeyValuePairFileLoader).                                                *)
(*                                                                         *)
(* Python strings are sequences of one-character strings.  Python values   *)
(* are records tagged with their type.                                     *)
(***************************************************************************)
EXTENDS Integers, Sequences, FiniteSets, TLC

VARIABLES
    cls,        \* class of the file loader instance
    validator,  \* the validator argument given to the constructor
    fname,      \* self.fname
    fs,         \* the filesystem under self.fname
    pc,         \* position of load()
    gpc,        \* position of the RecursiveFileLoader generator
    root,       \* generator local: root of the current os.walk tuple
    dirs,       \* generator local: dirs of the current os.walk tuple
    files,      \* generator local: files of the current os.walk tuple
    yielded,    \* paths the generator has yielded so far
    fn,         \* load() local: the path being read
    handles,    \* file objects created by open(): handle -> "open" | "closed"
    line_num,   \* load() local: index of the next line of the open file
    consumed,   \* lines the open file has handed to lineParser so far
    data,       \* load() local: the data dict
    errors,     \* load() local: the errors dict
    exc,        \* exception that left load(), or "none"
    environ,    \* os.environ
    eret,       \* what EnvLoader.load() returned last
    tdata,      \* TestTextLoader.data
    terrors,    \* TestTextLoader.errors
    tcall,      \* the last call made on the TestTextLoader
    tret,       \* what that call returned
    texc,       \* what that call raised, or "none"
    tset        \* whether setData or setErrors has been called

fileVars == <<cls, validator, fname, fs, pc, gpc, root, dirs, files, yielded,
              fn, handles, line_num, consumed, data, errors, exc>>
envVars  == <<environ, eret>>
textVars == <<tdata, terrors, tcall, tret, texc, tset>>
vars     == <<fileVars, envVars, textVars>>

-----------------------------------------------------------------------------
(* Bounds *)

MaxLines  == 2     \* lines in a file
MaxFields == 3     \* separator-delimited fields in a line

-----------------------------------------------------------------------------
(* Python values *)

PyNone      == [type |-> "NoneType"]
PyStr(s)    == [type |-> "str", s |-> s]
PyList(xs)  == [type |-> "list", items |-> xs]
PyDict(m)   == [type |-> "dict", map |-> m]
PyTuple(xs) == [type |-> "tuple", elts |-> xs]

EmptyMap == [x \in {} |-> x]

\* d[key] = value
SetItem(d, key, value) ==
    [x \in DOMAIN d \cup {key} |-> IF x = key THEN value ELSE d[x]]

\* d[key] = [x]: the list is replaced instead of extended
SetDefaultOverwrite(d, key, x) == SetItem(d, key, <<x>>)

\* d.setdefault(key, []).append(x)
SetDefaultAppend(d, key, x) ==
    SetItem(d, key, IF key \in DOMAIN d THEN Append(d[key], x) ELSE <<x>>)

-----------------------------------------------------------------------------
(* Python string operations *)

Whitespace == {" ", "\n"}

RECURSIVE lstrip(_)
lstrip(s) ==
    IF s # <<>> /\ Head(s) \in Whitespace THEN lstrip(Tail(s)) ELSE s

RECURSIVE rstrip(_)
rstrip(s) ==
    IF s # <<>> /\ s[Len(s)] \in Whitespace
    THEN rstrip(SubSeq(s, 1, Len(s) - 1))
    ELSE s

\* str.strip()
strip(s) == rstrip(lstrip(s))

\* str.startswith(prefix)
startswith(s, prefix) ==
    Len(s) >= Len(prefix) /\ SubSeq(s, 1, Len(prefix)) = prefix

\* str.endswith(suffix)
endswith(s, suffix) ==
    Len(s) >= Len(suffix) /\ SubSeq(s, Len(s) - Len(suffix) + 1, Len(s)) = suffix

\* str.split(sep, 1): only the first occurrence of sep delimits
RECURSIVE splitOnce(_, _, _)
splitOnce(s, sep, cur) ==
    IF s = <<>> THEN <<cur>>
    ELSE IF Head(s) = sep THEN <<cur, Tail(s)>>
    ELSE splitOnce(Tail(s), sep, Append(cur, Head(s)))

\* str.split(sep): every occurrence of sep delimits, empty segments are kept
RECURSIVE splitOn(_, _, _)
splitOn(s, sep, cur) ==
    IF s = <<>> THEN <<cur>>
    ELSE IF Head(s) = sep THEN <<cur>> \o splitOn(Tail(s), sep, <<>>)
    ELSE splitOn(Tail(s), sep, Append(cur, Head(s)))

\* str.split(): runs of whitespace delimit, no empty tokens
RECURSIVE splitWs(_, _)
splitWs(s, cur) ==
    IF s = <<>> THEN (IF cur = <<>> THEN <<>> ELSE <<cur>>)
    ELSE IF Head(s) \in Whitespace
         THEN (IF cur = <<>> THEN <<>> ELSE <<cur>>) \o splitWs(Tail(s), <<>>)
         ELSE splitWs(Tail(s), Append(cur, Head(s)))

\* the list of str a split returns
StrList(toks) == PyList([i \in 1..Len(toks) |-> PyStr(toks[i])])

-----------------------------------------------------------------------------
(* DataLoader *)

NoValidator == [none |-> TRUE]
Rejecting(S) == [rejects |-> S]

\* the validator is dropped and every key accepted
validateAlways(v, key) == TRUE

\* DataLoader.__init__: self._validate is the validator, or accept-all
validate(v, key) ==
    IF v = NoValidator THEN TRUE ELSE key \notin v.rejects

-----------------------------------------------------------------------------
(* The line parsers.  Each returns the data and errors dicts as the call   *)
(* leaves them.                                                            *)

Diag(fmt, n, text) == [fmt |-> fmt, args |-> <<n, text>>]

Parsed(d, e) == [data |-> d, errors |-> e]

ItemFileLoader_lineParser(self_fname, v, rawline, n, d, e) ==
    LET line  == strip(rawline)
        split == splitWs(line, <<>>)
        key   == split[1]
    IN  IF startswith(line, <<"#">>) THEN Parsed(d, e)
        ELSE IF Len(line) = 0 THEN Parsed(d, e)
        ELSE IF Len(split) = 0 THEN
            Parsed(d, SetDefaultAppend(e, self_fname,
                Diag("Malformed data at line: %s, data: %s", n + 1, line)))
        ELSE IF ~validate(v, key) THEN
            Parsed(d, SetDefaultAppend(e, self_fname,
                Diag("Validation failed at line: %s, data %s", n + 1, key)))
        ELSE Parsed(SetItem(d, key, PyNone), e)

\* data[key].extend(value): the tokens are merged into the stored list
AccumulateExtend(d, key, value) ==
    IF key \in DOMAIN d
    THEN SetItem(d, key, PyList(d[key].items \o value.items))
    ELSE SetItem(d, key, value)

\* if key in data: data[key].append(value) else: data[key] = value
Accumulate(d, key, value) ==
    IF key \in DOMAIN d
    THEN SetItem(d, key, PyList(Append(d[key].items, value)))
    ELSE SetItem(d, key, value)

KeyListFileLoader_lineParser(self_fname, v, rawline, n, d, e) ==
    LET line  == strip(rawline)
        split == splitWs(line, <<>>)
        key   == split[1]
        value == StrList(Tail(split))
    IN  IF startswith(line, <<"#">>) THEN Parsed(d, e)
        ELSE IF Len(line) = 0 THEN Parsed(d, e)
        ELSE IF Len(split) < 2 THEN
            Parsed(d, SetDefaultAppend(e, self_fname,
                Diag("Malformed data at line: %s, data: %s", n + 1, line)))
        ELSE IF ~validate(v, key) THEN
            Parsed(d, SetDefaultAppend(e, self_fname,
                Diag("Validation failed at line: %s, data %s", n + 1, key)))
        ELSE Parsed(Accumulate(d, key, value), e)

KeyValuePairFileLoader_lineParser(self_fname, v, rawline, n, d, e) ==
    LET line  == strip(rawline)
        split == splitOn(line, "=", <<>>)
        key   == split[1]
        value == StrList(Tail(split))
    IN  IF startswith(line, <<"#">>) THEN Parsed(d, e)
        ELSE IF Len(line) = 0 THEN Parsed(d, e)
        ELSE IF Len(split) < 2 THEN
            Parsed(d, SetDefaultAppend(e, self_fname,
                Diag("Malformed data at line: %s, data %s", n + 1, line)))
        ELSE IF Len(key) = 0 THEN
            Parsed(d, SetDefaultAppend(e, self_fname,
                Diag("Malformed key at line: %s, key %s", n + 1, key)))
        ELSE IF ~validate(v, key) THEN
            Parsed(d, SetDefaultAppend(e, self_fname,
                Diag("Validation failed at line: %s, data %s", n + 1, key)))
        ELSE Parsed(Accumulate(d, key, value), e)

\* self.lineParser, looked up on the instance's class
lineParser(c, self_fname, v, rawline, n, d, e) ==
    IF c = "ItemFileLoader"
    THEN ItemFileLoader_lineParser(self_fname, v, rawline, n, d, e)
    ELSE IF c = "KeyListFileLoader"
    THEN KeyListFileLoader_lineParser(self_fname, v, rawline, n, d, e)
    ELSE KeyValuePairFileLoader_lineParser(self_fname, v, rawline, n, d, e)

-----------------------------------------------------------------------------
(* Inputs: loader classes, validators, lines and filesystems *)

FileLoaderClasses ==
    {"FileLoader", "ItemFileLoader", "KeyListFileLoader", "KeyValuePairFileLoader"}

Validators == {NoValidator, Rejecting({<<>>, <<"k">>})}

\* a line is a first field followed by value fields
KeyFields == {<<>>, <<"k">>, <<"v">>}

FieldSeqs ==
    {<<>>} \cup
    {<<k>> \o [i \in 1..n |-> <<"v">>] : k \in KeyFields, n \in 0..(MaxFields - 1)}

RECURSIVE Join(_, _)
Join(fields, sep) ==
    IF fields = <<>> THEN <<>>
    ELSE IF Len(fields) = 1 THEN fields[1]
    ELSE fields[1] \o <<sep>> \o Join(Tail(fields), sep)

\* the lines a file can hold, each with its line terminator: the fields
\* joined by blanks or by '=', comments, an empty value and a doubled blank
Lines ==
    {Join(fields, sep) \o <<"\n">> : fields \in FieldSeqs, sep \in {" ", "="}}
    \cup {<<"#", "k", "\n">>, <<" ", "#", "\n">>,
          <<"k", "=", "\n">>, <<"k", " ", " ", "v", "\n">>}

Hidden == <<".", "h">>
Backup == <<"b", "~">>
Real   == <<"r">>
CVS    == <<"C", "V", "S">>
Sub    == <<"d">>

Range(s) == {s[i] : i \in 1..Len(s)}

\* os.listdir orders of the entries of a directory
FileLists == {<<>>, <<Real>>, <<Hidden>>, <<Backup>>, <<Hidden, Real>>,
              <<Backup, Real>>, <<Hidden, Backup>>, <<Hidden, Backup, Real>>}
DirLists  == {<<>>, <<CVS>>, <<Sub>>, <<Sub, CVS>>}

ThePath == <<"p">>

\* os.path.join(a, b)
join(a, b) == a \o <<"/">> \o b

\* what is found at ThePath: a plain file, nothing, or a directory with its
\* entries and the files beneath each of its subdirectories
Filesystems ==
    {[kind |-> "file", listable |-> TRUE, dirs |-> <<>>, files |-> <<>>,
      beneath |-> EmptyMap],
     [kind |-> "missing", listable |-> TRUE, dirs |-> <<>>, files |-> <<>>,
      beneath |-> EmptyMap],
     [kind |-> "dir", listable |-> FALSE, dirs |-> <<>>, files |-> <<>>,
      beneath |-> EmptyMap]}
    \cup UNION {
        {[kind |-> "dir", listable |-> TRUE, dirs |-> ds, files |-> fl,
          beneath |-> b] : b \in [Range(ds) -> {<<>>, <<Real>>}]}
        : ds \in DirLists, fl \in FileLists}

\* os.path.isdir
isdir(filesystem) == filesystem.kind = "dir"

-----------------------------------------------------------------------------
(* Initial states *)

NoValue == [type |-> "unset"]

EnvIdle == environ = EmptyMap /\ eret = NoValue

TextIdle ==
    /\ tdata = PyDict(EmptyMap) /\ terrors = PyDict(EmptyMap)
    /\ tcall = <<"__init__", PyNone>> /\ tret = NoValue /\ texc = "none"
    /\ tset = FALSE

\* FileLoader.__init__ on some class, validator and filesystem
Init ==
    /\ cls \in FileLoaderClasses
    /\ validator \in Validators
    /\ fname = ThePath
    /\ fs \in Filesystems
    /\ pc = "start" /\ gpc = "none" /\ root = <<>> /\ dirs = <<>>
    /\ files = <<>> /\ yielded = <<>> /\ fn = <<>> /\ handles = EmptyMap
    /\ line_num = 0 /\ consumed = <<>> /\ data = EmptyMap
    /\ errors = EmptyMap /\ exc = "none"
    /\ EnvIdle /\ TextIdle

-----------------------------------------------------------------------------
(* RecursiveFileLoader *)

\* list.remove(x): drops the first occurrence
RECURSIVE remove(_, _)
remove(l, x) ==
    IF l = <<>> THEN <<>>
    ELSE IF Head(l) = x THEN Tail(l)
    ELSE <<Head(l)>> \o remove(Tail(l), x)

\* the CVS entry is left in dirs
pruneNothing(ds) == ds

\* if 'CVS' in dirs: dirs.remove('CVS')
prune(ds) == IF CVS \in Range(ds) THEN remove(ds, CVS) ELSE ds

\* first next(): the isdir test; a plain path is yielded, a directory starts
\* os.walk, which hands out its top tuple or, when the directory cannot be
\* listed, nothing at all
RFL_isdir ==
    /\ pc = "next" /\ gpc = "created"
    /\ IF isdir(fs)
       THEN IF fs.listable
            THEN /\ gpc' = "walked"
                 /\ root' = fname /\ dirs' = fs.dirs /\ files' = fs.files
                 /\ UNCHANGED <<pc, yielded, fn>>
            ELSE /\ gpc' = "done" /\ pc' = "return"
                 /\ UNCHANGED <<root, dirs, files, yielded, fn>>
       ELSE /\ gpc' = "yielded"
            /\ yielded' = Append(yielded, fname)
            /\ fn' = fname /\ pc' = "open"
            /\ UNCHANGED <<root, dirs, files>>
    /\ UNCHANGED <<cls, validator, fname, fs, handles, line_num, consumed,
                   data, errors, exc, envVars, textVars>>

RFL_prune ==
    /\ pc = "next" /\ gpc = "walked"
    /\ dirs' = prune(dirs)
    /\ gpc' = "filter"
    /\ UNCHANGED <<cls, validator, fname, fs, pc, root, files, yielded, fn,
                   handles, line_num, consumed, data, errors, exc,
                   envVars, textVars>>

\* files = filter(files, str.startswith('.')): the argument
\* str.startswith('.') is a call of the method on '.' with no prefix, which
\* raises TypeError; the generator dies and load() propagates the exception
RFL_filter ==
    /\ pc = "next" /\ gpc = "filter"
    /\ gpc' = "raised" /\ pc' = "raised" /\ exc' = "TypeError"
    /\ UNCHANGED <<cls, validator, fname, fs, root, dirs, files, yielded, fn,
                   handles, line_num, consumed, data, errors,
                   envVars, textVars>>

\* next() after the plain path was yielded: the generator returns
RFL_resume ==
    /\ pc = "next" /\ gpc = "yielded"
    /\ gpc' = "done" /\ pc' = "return"
    /\ UNCHANGED <<cls, validator, fname, fs, root, dirs, files, yielded, fn,
                   handles, line_num, consumed, data, errors, exc,
                   envVars, textVars>>

-----------------------------------------------------------------------------
(* FileLoader.load *)

load_init ==
    /\ pc = "start"
    /\ data' = EmptyMap /\ errors' = EmptyMap
    /\ gpc' = "created" /\ pc' = "next"
    /\ UNCHANGED <<cls, validator, fname, fs, root, dirs, files, yielded, fn,
                   handles, line_num, consumed, exc, envVars, textVars>>

\* f = open(fn, 'rb')
load_open ==
    /\ pc = "open"
    /\ IF fs.kind = "missing"
       THEN /\ pc' = "raised" /\ exc' = "IOError"
            /\ UNCHANGED <<handles, line_num, consumed>>
       ELSE /\ handles' = SetItem(handles, Len(yielded), "open")
            /\ line_num' = 0 /\ consumed' = <<>>
            /\ pc' = "read"
            /\ UNCHANGED exc
    /\ UNCHANGED <<cls, validator, fname, fs, gpc, root, dirs, files, yielded,
                   fn, data, errors, envVars, textVars>>

\* one turn of "for line_num, line in enumerate(f): func(...)"
load_line ==
    /\ pc = "read" /\ Len(consumed) < MaxLines
    /\ \E line \in Lines :
        /\ consumed' = Append(consumed, line)
        /\ IF cls = "FileLoader"
           THEN /\ pc' = "raised" /\ exc' = "NotImplementedError"
                /\ UNCHANGED <<data, errors, line_num>>
           ELSE LET r == lineParser(cls, fname, validator, line, line_num,
                                    data, errors)
                IN  /\ data' = r.data /\ errors' = r.errors
                    /\ line_num' = line_num + 1
                    /\ UNCHANGED <<pc, exc>>
    /\ UNCHANGED <<cls, validator, fname, fs, gpc, root, dirs, files, yielded,
                   fn, handles, envVars, textVars>>

\* the file is exhausted; f stays bound to the file object
load_eof ==
    /\ pc = "read"
    /\ pc' = "next"
    /\ UNCHANGED <<cls, validator, fname, fs, gpc, root, dirs, files, yielded,
                   fn, handles, line_num, consumed, data, errors, exc,
                   envVars, textVars>>

\* return (data, errors): no statement of load() closes f; a reference
\* counting runtime closes it as the frame is torn down, any other runtime
\* leaves it to a later collection
load_return ==
    /\ pc = "return"
    /\ pc' = "returned"
    /\ \E refcounted \in BOOLEAN :
        handles' = IF refcounted
                   THEN [h \in DOMAIN handles |-> "closed"]
                   ELSE handles
    /\ UNCHANGED <<cls, validator, fname, fs, gpc, root, dirs, files, yielded,
                   fn, line_num, consumed, data, errors, exc,
                   envVars, textVars>>

\* the runtime reclaims a file object load() left open
finalize ==
    /\ pc \in {"returned", "raised"}
    /\ \E h \in DOMAIN handles :
        /\ handles[h] = "open"
        /\ handles' = [handles EXCEPT ![h] = "closed"]
    /\ UNCHANGED <<cls, validator, fname, fs, pc, gpc, root, dirs, files,
                   yielded, fn, line_num, consumed, data, errors, exc,
                   envVars, textVars>>

Next ==
    \/ load_init
    \/ RFL_isdir
    \/ RFL_prune
    \/ RFL_filter
    \/ RFL_resume
    \/ load_open
    \/ load_line
    \/ load_eof
    \/ load_return
    \/ finalize

Spec == Init /\ [][Next]_vars

-----------------------------------------------------------------------------
(* EnvLoader *)

EnvNames  == {"A", "B", "C"}
EnvValues == {"x", "y"}

\* os.environ[name] = value, by this process
environ_setitem ==
    /\ \E name \in EnvNames, value \in EnvValues :
        environ' = SetItem(environ, name, value)
    /\ UNCHANGED <<eret, fileVars, textVars>>

\* del os.environ[name], by this process
environ_delitem ==
    /\ \E name \in DOMAIN environ :
        environ' = [x \in DOMAIN environ \ {name} |-> environ[x]]
    /\ UNCHANGED <<eret, fileVars, textVars>>

\* the object EnvLoader.load hands back: os.environ itself, which is a
\* mapping and stays the live environment
EnvLoader_load_value == [type |-> "environ", ref |-> "os.environ"]

EnvLoader_load ==
    /\ eret' = EnvLoader_load_value
    /\ UNCHANGED <<environ, fileVars, textVars>>

\* EnvLoader.__init__ in some environment
InitEnv ==
    /\ cls = "EnvLoader"
    /\ validator \in Validators
    /\ fname = <<>>
    /\ fs = [kind |-> "missing", listable |-> TRUE, dirs |-> <<>>,
             files |-> <<>>, beneath |-> EmptyMap]
    /\ pc = "idle" /\ gpc = "none" /\ root = <<>> /\ dirs = <<>>
    /\ files = <<>> /\ yielded = <<>> /\ fn = <<>> /\ handles = EmptyMap
    /\ line_num = 0 /\ consumed = <<>> /\ data = EmptyMap
    /\ errors = EmptyMap /\ exc = "none"
    /\ environ \in UNION {[S -> EnvValues] : S \in SUBSET EnvNames}
    /\ eret = NoValue
    /\ TextIdle

NextEnv ==
    \/ environ_setitem
    \/ environ_delitem
    \/ EnvLoader_load

SpecEnv == InitEnv /\ [][NextEnv]_vars

-----------------------------------------------------------------------------
(* TestTextLoader *)

\* values a caller hands to setData and setErrors
TextArgs ==
    {PyDict(EmptyMap), PyDict(<<"k">> :> PyNone),
     PyDict(<<"v">> :> PyList(<<PyStr(<<"v">>)>>)),
     PyNone, PyStr(<<"k">>), PyList(<<>>)}

\* isinstance(text, dict)
isdict(text) == text.type = "dict"

\* setData that stores the argument before it tests its type
TestTextLoader_setDataUnchecked(self_data, text) ==
    [data |-> text, exc |-> IF isdict(text) THEN "none" ELSE "ValueError"]

\* setData: the new self.data and the exception raised
TestTextLoader_setData(self_data, text) ==
    IF isdict(text)
    THEN [data |-> text, exc |-> "none"]
    ELSE [data |-> self_data, exc |-> "ValueError"]

\* load: the value returned
TestTextLoader_load(self_data, self_errors) ==
    PyTuple(<<self_data, self_errors>>)

setData ==
    /\ \E text \in TextArgs :
        LET r == TestTextLoader_setData(tdata, text)
        IN  /\ tdata' = r.data /\ texc' = r.exc
            /\ tcall' = <<"setData", text>>
            /\ tret' = IF r.exc = "none" THEN PyNone ELSE NoValue
    /\ tset' = TRUE
    /\ UNCHANGED <<terrors, fileVars, envVars>>

setErrors ==
    /\ \E errs \in TextArgs :
        /\ terrors' = errs
        /\ tcall' = <<"setErrors", errs>>
    /\ tret' = PyNone /\ texc' = "none" /\ tset' = TRUE
    /\ UNCHANGED <<tdata, fileVars, envVars>>

load ==
    /\ tret' = TestTextLoader_load(tdata, terrors)
    /\ tcall' = <<"load", PyNone>>
    /\ texc' = "none"
    /\ UNCHANGED <<tdata, terrors, tset, fileVars, envVars>>

\* TestTextLoader.__init__
InitText ==
    /\ cls = "TestTextLoader"
    /\ validator \in Validators
    /\ fname = <<>>
    /\ fs = [kind |-> "missing", listable |-> TRUE, dirs |-> <<>>,
             files |-> <<>>, beneath |-> EmptyMap]
    /\ pc = "idle" /\ gpc = "none" /\ root = <<>> /\ dirs = <<>>
    /\ files = <<>> /\ yielded = <<>> /\ fn = <<>> /\ handles = EmptyMap
    /\ line_num = 0 /\ consumed = <<>> /\ data = EmptyMap
    /\ errors = EmptyMap /\ exc = "none"
    /\ EnvIdle
    /\ tdata = PyDict(EmptyMap) /\ terrors = PyDict(EmptyMap)
    /\ tcall = <<"__init__", PyNone>> /\ tret = NoValue /\ texc = "none"
    /\ tset = FALSE

NextText ==
    \/ setData
    \/ setErrors
    \/ load

SpecText == InitText /\ [][NextText]_vars

-----------------------------------------------------------------------------
(* Properties of RecursiveFileLoader *)

\* the names of a listing that neither start with '.' nor end with '~'
Visible(names) ==
    {f \in Range(names) : ~startswith(f, <<".">>) /\ ~endswith(f, <<"~">>)}

\* the files of the tree that are not hidden, not backups and not beneath CVS
ExpectedFiles ==
    {join(fname, f) : f \in Visible(fs.files)}
    \cup UNION {{join(join(fname, d), f) : f \in Visible(fs.beneath[d])}
                : d \in Range(fs.dirs) \ {CVS}}

\* a path with a CVS component below its first component
BeneathCVS(path) ==
    \E i \in 1..Len(path) :
        /\ i + 4 <= Len(path)
        /\ SubSeq(path, i, i + 4) = <<"/">> \o CVS \o <<"/">>

\* C1: given a listable directory, the generator never fails and, once
\* exhausted, has yielded exactly the files of the tree that are neither
\* hidden nor backups (the directory .hidden, backup~, real.conf gives only
\* real.conf).
C1_YieldsVisibleFiles ==
    (isdir(fs) /\ fs.listable) =>
        /\ gpc # "raised"
        /\ (gpc = "done" => Range(yielded) = ExpectedFiles)

\* C9: once the CVS test of a walk tuple has run, CVS is not among the
\* directories left for the walk to descend into, and no path the generator
\* yields lies beneath a CVS directory.
C9_CVSPruned ==
    /\ (gpc \in {"filter", "raised"} => CVS \notin Range(dirs))
    /\ \A i \in 1..Len(yielded) : ~BeneathCVS(yielded[i])

\* C9 witness: the walk of a directory with a CVS subdirectory that holds a
\* file has gone past the CVS test.
C9_Witness ==
    /\ gpc \in {"filter", "raised"}
    /\ CVS \in Range(fs.dirs)
    /\ fs.beneath[CVS] # <<>>
    /\ Sub \in Range(dirs)

-----------------------------------------------------------------------------
(* Properties of FileLoader.load *)

OpenHandles == {h \in DOMAIN handles : handles[h] = "open"}

Ended == pc \in {"returned", "raised"}

\* C4: at most one file is open at a time, and no file opened by load() is
\* open once its lines are exhausted or once load() has returned or raised.
C4_HandlesClosed ==
    /\ Cardinality(OpenHandles) <= 1
    /\ (pc \in {"next", "return", "returned", "raised"} => OpenHandles = {})

\* C6: errors has no key but self.fname, and a load() of a directory that
\* holds a readable file does not end before the files under it have been
\* read into the collection kept under the directory path.
C6_SharedErrorKey ==
    /\ DOMAIN errors \subseteq {fname}
    /\ (isdir(fs) /\ fs.listable /\ ExpectedFiles # {} /\ Ended) =>
            /\ exc = "none"
            /\ Len(yielded) = Cardinality(ExpectedFiles)
            /\ DOMAIN handles = 1..Len(yielded)

-----------------------------------------------------------------------------
(* Properties of the line parsers *)

ConcreteClasses ==
    {"ItemFileLoader", "KeyListFileLoader", "KeyValuePairFileLoader"}

\* the key the configured validator turns down
Rejects(key) == validator # NoValidator /\ key \in validator.rejects

\* a line that is a comment or blank once trimmed
Skipped(line) ==
    LET t == strip(line) IN t = <<>> \/ t[1] = "#"

\* the tokens of a line under the grammar of class c
Tokens(c, line) ==
    IF c = "KeyValuePairFileLoader"
    THEN splitOn(strip(line), "=", <<>>)
    ELSE splitWs(strip(line), <<>>)

\* a line that has the shape its grammar asks for
WellFormed(c, line) ==
    /\ ~Skipped(line)
    /\ Len(Tokens(c, line)) >= (IF c = "ItemFileLoader" THEN 1 ELSE 2)
    /\ (c = "KeyValuePairFileLoader" => Tokens(c, line)[1] # <<>>)

KeyOf(c, line) == Tokens(c, line)[1]

Accepted(c, line) == WellFormed(c, line) /\ ~Rejects(KeyOf(c, line))

Offending(c, line) == ~Skipped(line) /\ ~Accepted(c, line)

\* the diagnostics recorded so far under self.fname
Diags(e) == IF fname \in DOMAIN e THEN e[fname] ELSE <<>>

\* the 1-based numbers of the offending lines among the first n consumed
RECURSIVE OffendingNumbers(_)
OffendingNumbers(n) ==
    IF n = 0 THEN <<>>
    ELSE IF Offending(cls, consumed[n])
         THEN Append(OffendingNumbers(n - 1), n)
         ELSE OffendingNumbers(n - 1)

\* C2 as stated: two valid lines with the same key, the first with two
\* value tokens and the second with one, leave data[k] = [v1, v2] after the
\* first line and data[k] = [[v1, v2], [v3]] after the second.
C2_NestedPair ==
    (/\ cls \in {"KeyListFileLoader", "KeyValuePairFileLoader"}
     /\ Len(consumed) >= 1
     /\ Accepted(cls, consumed[1])
     /\ Len(Tokens(cls, consumed[1])) = 3) =>
        LET k  == KeyOf(cls, consumed[1])
            t1 == Tail(Tokens(cls, consumed[1]))
        IN  /\ Len(consumed) = 1 => data[k] = StrList(t1)
            /\ (/\ Len(consumed) = 2
                /\ Accepted(cls, consumed[2])
                /\ KeyOf(cls, consumed[2]) = k
                /\ Len(Tokens(cls, consumed[2])) = 2) =>
                    data[k] = PyList(<<StrList(t1),
                                       StrList(Tail(Tokens(cls, consumed[2])))>>)

\* C2 amended: after the first valid line of key k, data[k] is the flat list
\* of its value tokens; after a second valid line of the same key, data[k]
\* is that flat list with the second line's token list appended as one
\* nested element: [v1, v2, [v3]].
C2_FlatThenNested ==
    (/\ cls \in {"KeyListFileLoader", "KeyValuePairFileLoader"}
     /\ Len(consumed) >= 1
     /\ Accepted(cls, consumed[1])) =>
        LET k  == KeyOf(cls, consumed[1])
            t1 == Tail(Tokens(cls, consumed[1]))
        IN  /\ Len(consumed) = 1 => data[k] = StrList(t1)
            /\ (/\ Len(consumed) = 2
                /\ Accepted(cls, consumed[2])
                /\ KeyOf(cls, consumed[2]) = k) =>
                    data[k] = PyList(Append(StrList(t1).items,
                                  StrList(Tail(Tokens(cls, consumed[2])))))

\* C2 witness: a key->list file "k v1 v2", "k v3" has been read.
C2_Witness ==
    /\ cls = "KeyListFileLoader"
    /\ Len(consumed) = 2
    /\ Accepted(cls, consumed[1]) /\ Accepted(cls, consumed[2])
    /\ KeyOf(cls, consumed[1]) = KeyOf(cls, consumed[2])
    /\ Len(Tokens(cls, consumed[1])) = 3
    /\ Len(Tokens(cls, consumed[2])) = 2

\* C5: for the three grammars, load() never raises once it reads lines;
\* every line handed out by the file has been parsed; the diagnostics are,
\* in order, one per offending line; and the key of every accepted line is
\* in data.
C5_ParseErrorsDoNotAbort ==
    cls \in ConcreteClasses =>
        /\ (pc = "raised" => consumed = <<>>)
        /\ line_num = Len(consumed)
        /\ Len(Diags(errors)) = Len(OffendingNumbers(Len(consumed)))
        /\ \A i \in 1..Len(Diags(errors)) :
               Diags(errors)[i].args[1] = OffendingNumbers(Len(consumed))[i]
        /\ \A i \in 1..Len(consumed) :
               Accepted(cls, consumed[i]) => KeyOf(cls, consumed[i]) \in DOMAIN data

\* C5 witness: load() has returned after an offending line followed by an
\* accepted one.
C5_Witness ==
    /\ cls \in ConcreteClasses
    /\ pc = "returned"
    /\ Len(consumed) = 2
    /\ Offending(cls, consumed[1])
    /\ Accepted(cls, consumed[2])
    /\ Len(Diags(errors)) = 1
    /\ DOMAIN data # {}

\* C7: a step that parses a well-formed line whose key the validator
\* rejects appends exactly one "Validation failed" diagnostic with the
\* 1-based line number and the key, and leaves data as it was.
C7_ValidationFailure ==
    [][(/\ cls \in ConcreteClasses
        /\ Len(consumed') = Len(consumed) + 1
        /\ WellFormed(cls, consumed'[Len(consumed')])
        /\ Rejects(KeyOf(cls, consumed'[Len(consumed')]))) =>
            /\ data' = data
            /\ DOMAIN errors' = {fname}
            /\ errors'[fname] =
                   Append(Diags(errors),
                          Diag("Validation failed at line: %s, data %s",
                               Len(consumed'),
                               KeyOf(cls, consumed'[Len(consumed')])))]_vars

\* C7 witness: a rejected line has just been parsed after a line that was
\* stored.
C7_Witness ==
    /\ cls \in ConcreteClasses
    /\ Len(consumed) = 2
    /\ WellFormed(cls, consumed[2]) /\ Rejects(KeyOf(cls, consumed[2]))
    /\ DOMAIN data # {}
    /\ Len(Diags(errors)) = 1

\* the first segment of a trimmed line that holds a '='
FirstEq(t) == CHOOSE i \in 1..Len(t) : t[i] = "=" /\ \A j \in 1..(i - 1) : t[j] # "="
FirstSegment(t) == SubSeq(t, 1, FirstEq(t) - 1)

\* the str payloads of a list of str
Strs(list) == [i \in 1..Len(list.items) |-> list.items[i].s]

-----------------------------------------------------------------------------
(* Properties of EnvLoader and TestTextLoader *)

\* C3: whenever EnvLoader.load() hands back a value, that value is a pair
\* (data, errors) whose data equals the environment of that moment and
\* whose errors is empty.
C3_ReturnsPair ==
    [][eret' # eret =>
          /\ eret'.type = "tuple"
          /\ Len(eret'.elts) = 2
          /\ eret'.elts[1].map = environ
          /\ eret'.elts[2] = PyDict(EmptyMap)]_vars

\* C8: setData with a non-mapping raises ValueError and leaves data and
\* errors as they were; load() returns the held (data, errors) pair and
\* changes nothing; load() before any setter call returns ({}, {}).
C8_TextLoader ==
    [][/\ (tcall'[1] = "setData" /\ tcall'[2].type # "dict") =>
              /\ texc' = "ValueError"
              /\ tdata' = tdata /\ terrors' = terrors
       /\ tcall'[1] = "load" =>
              /\ texc' = "none"
              /\ tret' = PyTuple(<<tdata, terrors>>)
              /\ tdata' = tdata /\ terrors' = terrors
       /\ (tcall'[1] = "load" /\ ~tset') =>
              tret' = PyTuple(<<PyDict(EmptyMap), PyDict(EmptyMap)>>)]_vars

\* C8 witness: setData with a non-mapping has just failed on a loader that
\* holds data and errors set earlier.
C8_Witness ==
    /\ tcall = <<"setData", PyNone>>
    /\ texc = "ValueError"
    /\ tdata = PyDict(<<"k">> :> PyNone)
    /\ terrors = PyList(<<>>)

====
